---- MODULE Spec2Model ----
(***************************************************************************)
(* A model of the eventbus client: the run loop of Eventbus.Run            *)
(* (src/eventbus.go), the three protocol states (src/states.go), the       *)
(* reconnection schedulers (src/states.go) and the offset stores           *)
(* (src/unnamed/part_000).                                                 *)
(*                                                                         *)
(* The loop is one goroutine; pc is its position.  The server, the         *)
(* handler, the store backend, the error callback and the caller of Run    *)
(* are the environment: every outcome they can produce is a choice.        *)
(***************************************************************************)
EXTENDS Integers, Sequences, FiniteSets, TLC

\* ------------------------------------------------------------------ bounds
MaxDials == 3      \* Dial calls in one client lifetime
MaxReads == 5      \* ReadMessage calls in one client lifetime
MaxPartition == 1  \* partitions 0..MaxPartition
MaxOffset == 1     \* offsets 0..MaxOffset

Partitions == 0..MaxPartition
Offsets == 0..MaxOffset

\* ------------------------------------------------------- program constants
OffsetNewest == -1
OffsetOldest == -2

\* eb.socket == nil
NilSocket == 0

\* ---------------------------------------------------------------- helpers
RECURSIVE Pow2(_)
Pow2(n) == IF n <= 0 THEN 1 ELSE 2 * Pow2(n - 1)

DigitChar == <<"0", "1", "2", "3", "4", "5", "6", "7", "8", "9">>

RECURSIVE Digits(_)
Digits(n) ==
  IF n < 10 THEN <<DigitChar[n + 1]>>
  ELSE Append(Digits(n \div 10), DigitChar[(n % 10) + 1])

\* strconv.FormatInt(n, 10) / strconv.Itoa(n): the decimal text of n
FormatInt(n) == IF n < 0 THEN <<"-">> \o Digits(0 - n) ELSE Digits(n)

\* The empty map
EmptyOffsets == [p \in {} |-> 0]

\* -------------------------------------------------------------- durations
\* time.Duration is an int64 count of nanoseconds. A duration is the 8 bytes
\* of its two's complement, least significant first, so that sums, products
\* and doublings wrap as they do in Go.
DurationBytes == 8
Byte == 256

\* The duration of n nanoseconds, 0 <= n < 2^31
FromNat(n) ==
  [i \in 1..DurationBytes |-> IF i <= 4 THEN (n \div Pow2(8 * (i - 1))) % Byte ELSE 0]

ZeroDuration == FromNat(0)

\* math.MinInt64 and math.MaxInt64
MinInt64 ==
  [i \in 1..DurationBytes |-> IF i = DurationBytes THEN Byte \div 2 ELSE 0]
MaxInt64 ==
  [i \in 1..DurationBytes |->
     IF i = DurationBytes THEN (Byte \div 2) - 1 ELSE Byte - 1]

\* a + b in int64
Add(a, b) ==
  LET total[i \in 0..DurationBytes] ==
        IF i = 0 THEN 0 ELSE a[i] + b[i] + (total[i - 1] \div Byte)
  IN [i \in 1..DurationBytes |-> total[i] % Byte]

\* a * 2 in int64 (b *= 2)
Double(a) == Add(a, a)

\* a * b in int64: column k of the long multiplication sums a[i] * b[j] over
\* i + j = k + 1, and carries the running total into column k + 1
Mul(a, b) ==
  LET column[k \in 1..DurationBytes] ==
        LET sum[i \in 0..k] ==
              IF i = 0 THEN 0 ELSE sum[i - 1] + (a[i] * b[k + 1 - i])
        IN sum[k]
      total[k \in 0..DurationBytes] ==
        IF k = 0 THEN 0 ELSE column[k] + (total[k - 1] \div Byte)
  IN [k \in 1..DurationBytes |-> total[k] % Byte]

\* The sign bit
Negative(a) == a[DurationBytes] >= Byte \div 2

\* a < b and a <= b as signed integers
Less(a, b) ==
  IF Negative(a) # Negative(b) THEN Negative(a)
  ELSE \E i \in 1..DurationBytes :
         /\ a[i] < b[i]
         /\ \A j \in (i + 1)..DurationBytes : a[j] = b[j]

Leq(a, b) == a = b \/ Less(a, b)

\* time.Second, and n * time.Second
Second == FromNat(1000000000)
Seconds(n) == Mul(FromNat(n), Second)

\* time.Duration(math.Min(float64(a), float64(b))). The conversions to float64
\* and back are exact for an int64 of at most 53 significant bits, which
\* every duration below is (a small multiple of a power of two).
MinDuration(a, b) == IF Leq(a, b) THEN a ELSE b

\* What a conversion of a float64 outside the range of int64 yields: the
\* result is implementation-dependent (amd64 gives MinInt64, arm64 MaxInt64)
OutOfRangeConversions == {MinInt64, MaxInt64}

\* time.Duration(math.Pow(2, n)): 2^n truncated to int64; beyond the range
\* of int64 the conversion yields conv
PowDuration(n, conv) ==
  IF n < 0 THEN ZeroDuration
  ELSE IF n <= 8 * DurationBytes - 2
  THEN [i \in 1..DurationBytes |-> IF i = (n \div 8) + 1 THEN Pow2(n % 8) ELSE 0]
  ELSE conv

\* int32 counters wrap
MaxInt32 == 2147483647
MinInt32 == (0 - MaxInt32) - 1
Int32Inc(a) == IF a = MaxInt32 THEN MinInt32 ELSE a + 1
Int32Dec(a) == IF a = MinInt32 THEN MaxInt32 ELSE a - 1

\* ------------------------------------------------------------- schedulers
\* A scheduler is a record: kind, the policy's parameters (limit, delay,
\* maxDelay), attempts, backoffs, and for NewScheduler of the limited
\* exponential policy its loop variable b and whether the loop has ended.
Scheduler(kind, limit, delay, maxDelay, attempts, built) ==
  [kind |-> kind, limit |-> limit, delay |-> delay, maxDelay |-> maxDelay,
   attempts |-> attempts, backoffs |-> <<>>, b |-> delay, built |-> built]

\* ConstantReconnectionPolicy.NewScheduler
ConstantScheduler(d) == Scheduler("constant", 0, d, d, 0, TRUE)

\* ExponentialReconnectionPolicy.NewScheduler
ExponentialScheduler(base, max) ==
  Scheduler("exponential", 0, base, max, 0, TRUE)

\* LimitedReconnectionPolicy.NewScheduler
LimitedScheduler(n, d) == Scheduler("limited", n, d, d, n, TRUE)

\* LimitedExponentialReconnectionPolicy.NewScheduler before its loop:
\* var backoffs []time.Duration; b := p.baseDelay
LimitedExponentialPolicy(base, max) ==
  Scheduler("limitedExponential", 0, base, max, 0, FALSE)

\* The loop of NewScheduler with b < p.maxDelay as its condition
NewSchedulerIterationStrict(s) ==
  IF Less(s.b, s.maxDelay)
  THEN [s EXCEPT !.backoffs = Append(s.backoffs, s.b), !.b = Double(s.b)]
  ELSE [s EXCEPT !.built = TRUE]

\* One test of the loop of NewScheduler with the iteration it leads to:
\* for b <= p.maxDelay { backoffs = append(backoffs, b); b *= 2 }
NewSchedulerIteration(s) ==
  IF Leq(s.b, s.maxDelay)
  THEN [s EXCEPT !.backoffs = Append(s.backoffs, s.b), !.b = Double(s.b)]
  ELSE [s EXCEPT !.built = TRUE]

\* The loop of NewScheduler run to its end
RECURSIVE LimitedExponentialBackoffs(_)
LimitedExponentialBackoffs(s) ==
  IF s.built THEN s ELSE LimitedExponentialBackoffs(NewSchedulerIteration(s))

\* LimitedExponentialReconnectionPolicy.NewScheduler, for parameters with
\* which its loop ends
LimitedExponentialScheduler(base, max) ==
  LimitedExponentialBackoffs(LimitedExponentialPolicy(base, max))

\* calculateDelay: time.Duration(math.Pow(2, attempts-1)) * base
calculateDelay(base, attempts, conv) ==
  Mul(PowDuration(attempts - 1, conv), base)

\* NextReconnectBackoff of each scheduler type: the scheduler after the call,
\* the duration returned, and the outcome: "continue" (nil error),
\* "exhausted" (ErrReconnectsExhausted) or "panic" (index out of range).
ConstantNext(s) == [sched |-> s, d |-> s.delay, res |-> "continue"]

ExponentialNext(s, conv) ==
  LET a == Int32Inc(s.attempts)
  IN [sched |-> [s EXCEPT !.attempts = a],
      d |-> MinDuration(calculateDelay(s.delay, a, conv), s.maxDelay),
      res |-> "continue"]

\* A limited scheduler that does not count its calls
LimitedNextUncounted(s) ==
  [sched |-> s,
   d |-> s.delay,
   res |-> IF s.attempts - 1 >= 0 THEN "continue" ELSE "exhausted"]

\* A limited scheduler that has one attempt less than it was given
LimitedNextOffByOne(s) ==
  LET a == Int32Dec(s.attempts)
  IN [sched |-> [s EXCEPT !.attempts = a],
      d |-> s.delay,
      res |-> IF a > 0 THEN "continue" ELSE "exhausted"]

LimitedNext(s) ==
  LET a == Int32Dec(s.attempts)
  IN [sched |-> [s EXCEPT !.attempts = a],
      d |-> s.delay,
      res |-> IF a >= 0 THEN "continue" ELSE "exhausted"]

LimitedExponentialNext(s) ==
  LET a == s.attempts + 1
      n == Len(s.backoffs)
  IN IF a > n
     THEN IF n = 0
          THEN [sched |-> [s EXCEPT !.attempts = a], d |-> ZeroDuration,
                res |-> "panic"]
          ELSE [sched |-> [s EXCEPT !.attempts = a], d |-> s.backoffs[n],
                res |-> "exhausted"]
     ELSE [sched |-> [s EXCEPT !.attempts = a], d |-> s.backoffs[a],
           res |-> "continue"]

NextReconnectBackoff(s, conv) ==
  CASE s.kind = "constant" -> ConstantNext(s)
    [] s.kind = "exponential" -> ExponentialNext(s, conv)
    [] s.kind = "limited" -> LimitedNext(s)
    [] s.kind = "limitedExponential" -> LimitedExponentialNext(s)

\* The schedulers a client is run with.
Schedulers ==
  { ConstantScheduler(Second),
    ExponentialScheduler(Second, Seconds(4)),
    LimitedScheduler(2, Second),
    LimitedExponentialScheduler(Second, Seconds(2)),
    LimitedExponentialScheduler(Seconds(2), Second) }

\* ------------------------------------------------------------ wire frames
\* What ReadMessage can return as a message body. "malformed" is a body that
\* is not valid JSON; the other three are the JSON objects of the protocol.
Frame(kind, id, partition, offset) ==
  [kind |-> kind, id |-> id, partition |-> partition, offset |-> offset]

NoFrame == Frame("none", "", 0, 0)

Frames ==
  { Frame("malformed", "", 0, 0), Frame("identity", "abc", 0, 0),
    Frame("ack", "abc", 0, 0) }
  \cup { Frame("message", "", p, o) : p \in Partitions, o \in Offsets }

\* json.Unmarshal(body, &serverHandshake{}): fails on a body that is not JSON;
\* a JSON object without "id" leaves ID at its zero value.
UnmarshalServerHandshake(body) ==
  [ok |-> body.kind # "malformed", ID |-> body.id]

\* json.Unmarshal(body, &streamingEvent{})
UnmarshalStreamingEvent(body) == [ok |-> body.kind # "malformed"]

\* json.Unmarshal(body, &Message{}): a JSON object without "offset" and
\* "partition" leaves both at zero.
UnmarshalMessage(body) ==
  [ok |-> body.kind # "malformed",
   Partition |-> IF body.kind = "message" THEN body.partition ELSE 0,
   Offset |-> IF body.kind = "message" THEN body.offset ELSE 0]

\* ------------------------------------------------------------ offset store
\* PartitionOffsets is a map: a function whose domain is the set of keys.
\* os.offsets[partition] = offset
MapSet(offsets, partition, offset) ==
  [p \in (DOMAIN offsets) \cup {partition} |->
     IF p = partition THEN offset ELSE offsets[p]]

\* The result of GetOffsets: "nil" (nil, nil), "offsets" (&m, nil) or
\* "error" (nil, err).
GetResult(res, offsets) == [res |-> res, offsets |-> offsets]

\* InMemoryOffsetStore.GetOffsets
InMemoryGetOffsets(offsets) ==
  IF Cardinality(DOMAIN offsets) = 0
  THEN GetResult("nil", EmptyOffsets)
  ELSE GetResult("offsets", offsets)

\* RedisOffsetStore.GetOffsets with redisToPartitionOffsets: reply is "err"
\* (the command failed or the reply does not parse) or "values".
RedisGetOffsets(offsets, reply) ==
  IF reply = "err" THEN GetResult("error", EmptyOffsets)
  ELSE IF Cardinality(DOMAIN offsets) = 0
  THEN GetResult("nil", EmptyOffsets)
  ELSE GetResult("offsets", offsets)

\* The replies the backend can give to HGETALL
GetReplies(kind) == IF kind = "memory" THEN {"values"} ELSE {"values", "err"}

GetOffsets(kind, offsets, reply) ==
  IF kind = "memory" THEN InMemoryGetOffsets(offsets)
  ELSE RedisGetOffsets(offsets, reply)

\* The replies the backend can give to HSET: 0 (field updated), 1 (field
\* created), 2 (any other integer), "err" (the command failed) and "panic".
\* The in-memory store has no backend: it always stores.
SetReplies(kind) ==
  IF kind = "memory" THEN {"stored"} ELSE {"0", "1", "2", "err", "panic"}

\* RedisOffsetStore.SetOffset: r, err := redis.Int(reply);
\* if !(r == 1 || r == 0) { return error }; return err
RedisSetOffsetResult(reply) ==
  CASE reply \in {"0", "1"} -> "ok"
    [] reply = "2" -> "err"
    [] reply = "err" -> "err"
    [] reply = "panic" -> "panic"

\* SetOffset of either store: the result ("ok", "err", "panic")
SetOffsetResult(kind, reply) ==
  IF kind = "memory" THEN "ok" ELSE RedisSetOffsetResult(reply)

\* SetOffset that reports success and stores nothing
SetOffsetLost(kind, offsets, partition, offset, reply) == offsets

\* SetOffset of either store: the offsets held afterwards
SetOffset(kind, offsets, partition, offset, reply) ==
  IF kind = "memory" \/ reply \in {"0", "1"}
  THEN MapSet(offsets, partition, offset)
  ELSE offsets

\* ------------------------------------------------------ handshake encoding
\* PartitionOffsets.MarshalJSON: data[strconv.Itoa(int(k))] = strconv.Itoa(int(v))
PartitionOffsetsMarshalJSON(po) ==
  [s \in {FormatInt(k) : k \in DOMAIN po} |->
     FormatInt(po[CHOOSE k \in DOMAIN po : FormatInt(k) = s])]

\* base64.StdEncoding.EncodeToString(json.Marshal(...)): the JSON document in
\* its base64 wrapping
Base64Json(doc) == [base64 |-> doc]

\* encodeOffsets: {"p": offsets}
encodeOffsets(offsets) ==
  Base64Json([key |-> "p", value |-> PartitionOffsetsMarshalJSON(offsets)])

\* encodeStarting: {"d": strconv.FormatInt(position, 10)}
encodeStarting(position) ==
  Base64Json([key |-> "d", value |-> FormatInt(position)])

\* Config of the client, fixed for its lifetime
Config ==
  [AuthToken |-> "token", Stream |-> "stream", Client |-> "client",
   Version |-> "1"]

HandshakeIdentity(serverID) ==
  [k \in {"id", "authentication", "stream", "client", "version"} |->
     CASE k = "id" -> serverID
       [] k = "authentication" -> Config.AuthToken
       [] k = "stream" -> Config.Stream
       [] k = "client" -> Config.Client
       [] k = "version" -> Config.Version]

\* handshake["state"] = v
WithState(handshake, v) ==
  [k \in (DOMAIN handshake) \cup {"state"} |->
     IF k = "state" THEN v ELSE handshake[k]]

\* A createHandshake that asks for the configured boundary whatever is stored
createHandshakeFromBoundary(serverID, got, starting) ==
  LET handshake == HandshakeIdentity(serverID)
  IN IF got.res # "error"
     THEN WithState(handshake, encodeStarting(starting))
     ELSE handshake

\* Eventbus.createHandshake, given what store.GetOffsets returned
createHandshake(serverID, got, starting) ==
  LET handshake == HandshakeIdentity(serverID)
  IN IF got.res # "error"
     THEN IF got.res = "nil"
          THEN WithState(handshake, encodeStarting(starting))
          ELSE WithState(handshake, encodeOffsets(got.offsets))
     ELSE handshake

\* No handshake
NoHandshake == [k \in {} |-> ""]


\* ------------------------------------------------------------------ state
VARIABLES
  pc,             \* position of the loop's goroutine in Run
  state,          \* eb.state: "none" (unset), "connecting", "ready", "streaming"
  socket,         \* eb.socket: NilSocket or the number of the connection
  sched,          \* eb.Reconnection
  store,          \* the offsets held by eb.store
  storeKind,      \* "memory" (InMemoryOffsetStore) or "redis" (RedisOffsetStore)
  startingOffset, \* eb.startingOffset
  msg,            \* the body ReadMessage returned, until it is handled
  panicking,      \* a panic is unwinding the goroutine
  termErr,        \* why the loop is ending: "none", "exhausted", "dial", "fault"
  lastErr,        \* the last recoverable error, until a frame is accepted
  logCount,       \* calls of eb.errorLogger for lastErr
  callerWaiting,  \* the caller of Run is blocked receiving from done
  received,       \* the values the caller received from done before its close
  doneClosed,     \* close(done) has run
  dials,          \* calls of eb.dialer.Dial
  schedCalls,     \* calls of eb.Reconnection.NextReconnectBackoff
  backoff,        \* what the last scheduler call returned: [d, res]
  reads,          \* calls of eb.socket.ReadMessage
  sockReads,      \* calls of ReadMessage on the current socket
  okFrames,       \* frames handleEvent accepted on the current socket
  hsSent,         \* handshakes written to the current socket
  closeCount,     \* per connection, the calls of its Close
  last            \* what the last handleEvent call did

vars ==
  <<pc, state, socket, sched, store, storeKind, startingOffset, msg, panicking,
    termErr, lastErr, logCount, callerWaiting, received, doneClosed, dials,
    schedCalls, backoff, reads, sockReads, okFrames, hsSent, closeCount, last>>

\* The record of one handleEvent call: the state that handled the frame, the
\* frame's number on its socket, the recoverable error that ended the
\* connection before (if this is the first frame accepted since), what the
\* handler and the store returned ("none": not called), the message delivered
\* to the handler, the arguments of SetOffset, the handshake written.
NoLast ==
  [st |-> "none", nth |-> 0, after |-> "none", handler |-> "none",
   write |-> "none", partition |-> 0, offset |-> 0, wpartition |-> 0,
   woffset |-> 0, handshake |-> NoHandshake, got |-> "none"]

NoBackoff == [d |-> ZeroDuration, res |-> "none"]

\* Snapshots a remote store may hold when the client starts
InitialSnapshots == {EmptyOffsets, MapSet(EmptyOffsets, 0, 1)}

\* The client before Run is called
NotStarted ==
  /\ pc = "loop"
  /\ state = "none"
  /\ socket = NilSocket
  /\ msg = NoFrame
  /\ panicking = FALSE
  /\ termErr = "none"
  /\ lastErr = "none"
  /\ logCount = 0
  /\ callerWaiting = FALSE
  /\ received = <<>>
  /\ doneClosed = FALSE
  /\ dials = 0
  /\ schedCalls = 0
  /\ backoff = NoBackoff
  /\ reads = 0
  /\ sockReads = 0
  /\ okFrames = 0
  /\ hsSent = 0
  /\ closeCount = [c \in {} |-> 0]
  /\ last = NoLast

Init ==
  /\ sched \in Schedulers
  /\ storeKind \in {"memory", "redis"}
  /\ store \in (IF storeKind = "memory" THEN {EmptyOffsets} ELSE InitialSnapshots)
  /\ startingOffset \in {OffsetOldest, OffsetNewest}
  /\ NotStarted

\* -------------------------------------------------------- Eventbus.connect
\* connect without line 62: the state of the last connection is kept
ConnectStateKept(old) == IF old = "none" THEN "connecting" ELSE old

\* connect line 62: eb.state = connecting{}
ConnectState(old) == "connecting"

\* connect that ignores the scheduler's error and dials
ConnectOutcomesIgnoreExit(res) ==
  IF res = "panic" THEN {"panic"} ELSE {"open", "dial"}

\* connect lines 63-71: what connect does with the scheduler's outcome and
\* the result of Dial: "open" (return nil), "exhausted" / "dial" (return the
\* error), "panic" (the scheduler panicked)
ConnectOutcomes(res) ==
  CASE res = "panic" -> {"panic"}
    [] res = "exhausted" -> {"exhausted"}
    [] res = "continue" -> {"open", "dial"}

\* Run that goes round the loop when connect returned an error
AfterConnectErrorRetries == "loop"

\* Run lines 107-111: the loop's position after connect returned an error:
\* done <- err; return
AfterConnectError == "sendErr"

\* A panic unwinds to the deferred function of Run (lines 93-104)
Panic ==
  /\ pc' = "deferred"
  /\ panicking' = TRUE
  /\ termErr' = "fault"

\* Run lines 106-112 with connect (lines 61-81)
Connect ==
  /\ pc = "loop"
  /\ socket = NilSocket
  /\ dials < MaxDials
  /\ \E conv \in OutOfRangeConversions :
     LET r == NextReconnectBackoff(sched, conv)
     IN /\ state' = ConnectState(state)
        /\ sched' = r.sched
        /\ backoff' = [d |-> r.d, res |-> r.res]
        /\ schedCalls' = schedCalls + 1
        /\ \E outcome \in ConnectOutcomes(r.res) :
             CASE outcome = "panic" ->
                    /\ Panic
                    /\ UNCHANGED <<socket, dials, closeCount>>
               [] outcome = "exhausted" ->
                    /\ pc' = AfterConnectError
                    /\ termErr' = "exhausted"
                    /\ UNCHANGED <<socket, dials, closeCount, panicking>>
               [] outcome = "dial" ->
                    /\ pc' = AfterConnectError
                    /\ termErr' = "dial"
                    /\ dials' = dials + 1
                    /\ UNCHANGED <<socket, closeCount, panicking>>
               [] outcome = "open" ->
                    /\ pc' = "loop"
                    /\ dials' = dials + 1
                    /\ socket' = Cardinality(DOMAIN closeCount) + 1
                    /\ closeCount' =
                         [c \in 1..(Cardinality(DOMAIN closeCount) + 1) |->
                            IF c \in DOMAIN closeCount THEN closeCount[c] ELSE 0]
                    /\ UNCHANGED <<termErr, panicking>>
  /\ sockReads' = 0
  /\ okFrames' = 0
  /\ hsSent' = 0
  /\ UNCHANGED <<store, storeKind, startingOffset, msg, lastErr, logCount,
                 callerWaiting, received, doneClosed, reads, last>>

\* ------------------------------------------------------------ reading
\* A recoverable error: Run lines 114 and 121 take the error branch
Fail(kind) ==
  /\ pc' = "onError"
  /\ lastErr' = kind
  /\ logCount' = 0

\* Run line 113: eb.socket.ReadMessage()
ReadMessage ==
  /\ pc = "loop"
  /\ socket # NilSocket
  /\ reads < MaxReads
  /\ reads' = reads + 1
  /\ sockReads' = sockReads + 1
  /\ \E body \in Frames \cup {NoFrame} :
       IF body = NoFrame
       THEN /\ Fail("read")
            /\ msg' = NoFrame
       ELSE /\ pc' = "dispatch"
            /\ msg' = body
            /\ UNCHANGED <<lastErr, logCount>>
  /\ UNCHANGED <<state, socket, sched, store, storeKind, startingOffset,
                 panicking, termErr, callerWaiting, received, doneClosed, dials,
                 schedCalls, backoff, okFrames, hsSent, closeCount, last>>


\* --------------------------------------------------------- protocol states
\* What every handleEvent call leaves alone
HandleFrame ==
  /\ msg' = NoFrame
  /\ UNCHANGED <<socket, sched, storeKind, startingOffset, callerWaiting,
                 received, doneClosed, dials, schedCalls, backoff, reads,
                 sockReads, closeCount>>

\* handleEvent returned nil: Run goes round the loop
Accepted ==
  /\ pc' = "loop"
  /\ okFrames' = okFrames + 1
  /\ lastErr' = "none"
  /\ logCount' = 0
  /\ UNCHANGED <<panicking, termErr>>

\* handleEvent returned an error
Rejected(kind) ==
  /\ Fail(kind)
  /\ UNCHANGED <<okFrames, panicking, termErr>>

\* handleEvent panicked
Panicked ==
  /\ Panic
  /\ UNCHANGED <<okFrames, lastErr, logCount>>

\* connecting.handleEvent that goes straight to streaming
AfterHandshakeSkips == "streaming"

\* connecting.handleEvent line 37
AfterHandshake == "ready"

\* connecting.handleEvent (states.go lines 20-39)
ConnectingHandleEvent ==
  /\ pc = "dispatch"
  /\ state = "connecting"
  /\ HandleFrame
  /\ UNCHANGED store
  /\ LET sh == UnmarshalServerHandshake(msg)
         here == [NoLast EXCEPT !.st = state, !.nth = sockReads, !.after = lastErr]
     IN IF ~sh.ok
        THEN /\ Rejected("parse")
             /\ last' = here
             /\ UNCHANGED <<state, hsSent>>
        ELSE \E reply \in GetReplies(storeKind), sent \in BOOLEAN :
               LET got == GetOffsets(storeKind, store, reply)
                   handshake == createHandshake(sh.ID, got, startingOffset)
               IN /\ last' = [here EXCEPT !.handshake = handshake,
                                          !.got = got.res]
                  /\ hsSent' = hsSent + 1
                  /\ IF sent
                     THEN /\ state' = AfterHandshake
                          /\ Accepted
                     ELSE /\ Rejected("send")
                          /\ UNCHANGED state

\* ready.handleEvent line 55
AfterAcknowledgment == "streaming"

\* ready.handleEvent (states.go lines 49-57)
ReadyHandleEvent ==
  /\ pc = "dispatch"
  /\ state = "ready"
  /\ HandleFrame
  /\ UNCHANGED <<store, hsSent>>
  /\ last' = [NoLast EXCEPT !.st = state, !.nth = sockReads, !.after = lastErr]
  /\ IF ~UnmarshalStreamingEvent(msg).ok
     THEN /\ Rejected("parse")
          /\ UNCHANGED state
     ELSE /\ state' = AfterAcknowledgment
          /\ Accepted

\* What eventHandler.Handle can do: return nil, return an error, panic
HandlerResults == {"ok", "err", "panic"}

\* streaming.handleEvent that ignores the error Handle returned
CheckpointsAlways(handled) == handled # "panic"

\* streaming.handleEvent lines 73-77: SetOffset is called when Handle
\* returned nil
Checkpoints(handled) == handled = "ok"

\* streaming.handleEvent (states.go lines 67-82)
StreamingHandleEvent ==
  /\ pc = "dispatch"
  /\ state = "streaming"
  /\ HandleFrame
  /\ UNCHANGED <<state, hsSent>>
  /\ LET m == UnmarshalMessage(msg)
         here == [NoLast EXCEPT !.st = state, !.nth = sockReads, !.after = lastErr]
     IN IF ~m.ok
        THEN /\ Rejected("parse")
             /\ last' = here
             /\ UNCHANGED store
        ELSE \E handled \in HandlerResults :
               LET delivered ==
                     [here EXCEPT !.handler = handled,
                                  !.partition = m.Partition,
                                  !.offset = m.Offset]
               IN IF Checkpoints(handled)
                  THEN \E reply \in SetReplies(storeKind) :
                         LET written == SetOffsetResult(storeKind, reply)
                         IN /\ store' = SetOffset(storeKind, store, m.Partition,
                                                  m.Offset, reply)
                            /\ last' = [delivered EXCEPT
                                          !.write = written,
                                          !.wpartition = m.Partition,
                                          !.woffset = m.Offset]
                            /\ CASE written = "ok" -> Accepted
                                 [] written = "err" -> Rejected("store")
                                 [] written = "panic" -> Panicked
                  ELSE /\ UNCHANGED store
                       /\ last' = delivered
                       /\ IF handled = "panic"
                          THEN Panicked
                          ELSE Rejected("handler")

\* ------------------------------------------------------ recoverable errors
\* What eb.errorLogger can do: return, or panic
LoggerResults == {"returns", "panics"}

\* Run that returns on a recoverable error
AfterRecoverableErrorReturns == "closeSocket"

\* Run lines 116-118 and 123-125: Close, eb.socket = nil, continue
AfterRecoverableError == "loop"

\* A Close that is never made
CloseSkipped(c) == closeCount

\* Close of connection c
Close(c) == [closeCount EXCEPT ![c] = @ + 1]

\* Run lines 115-118 and 122-125
HandleError ==
  /\ pc = "onError"
  /\ logCount' = logCount + 1
  /\ \E logger \in LoggerResults :
       IF logger = "returns"
       THEN /\ closeCount' = Close(socket)
            /\ socket' = NilSocket
            /\ pc' = AfterRecoverableError
            /\ UNCHANGED <<panicking, termErr>>
       ELSE /\ Panic
            /\ UNCHANGED <<socket, closeCount>>
  /\ UNCHANGED <<state, sched, store, storeKind, startingOffset, msg, lastErr,
                 callerWaiting, received, doneClosed, dials, schedCalls,
                 backoff, reads, sockReads, okFrames, hsSent, last>>

\* ------------------------------------------------------- the end of the loop
\* done is unbuffered: a send completes when the caller receives
Send(v) ==
  /\ callerWaiting
  /\ received' = Append(received, v)
  /\ callerWaiting' = FALSE

\* Run line 109: done <- err, then return
SendConnectError ==
  /\ pc = "sendErr"
  /\ Send(termErr)
  /\ pc' = "deferred"
  /\ UNCHANGED <<state, socket, sched, store, storeKind, startingOffset, msg,
                 panicking, termErr, lastErr, logCount, doneClosed, dials,
                 schedCalls, backoff, reads, sockReads, okFrames, hsSent,
                 closeCount, last>>

\* A deferred function that sends on done whether or not there was a panic
RecoveredAlways(unwinding) == TRUE

\* Run line 94: recover() returns non-nil when a panic is unwinding
Recovered(unwinding) == unwinding

\* Run lines 94-100: recover, and done <- err when there was a panic
Recover ==
  /\ pc = "deferred"
  /\ IF Recovered(panicking)
     THEN Send(termErr)
     ELSE UNCHANGED <<received, callerWaiting>>
  /\ panicking' = FALSE
  /\ pc' = "closeSocket"
  /\ UNCHANGED <<state, socket, sched, store, storeKind, startingOffset, msg,
                 termErr, lastErr, logCount, doneClosed, dials, schedCalls,
                 backoff, reads, sockReads, okFrames, hsSent, closeCount, last>>

\* A deferred function that leaves the socket as it is
DeferredClosesNever(s) == FALSE

\* Run line 101: if eb.socket != nil
DeferredCloses(s) == s # NilSocket

\* Run lines 101-103: if eb.socket != nil { eb.socket.Close() }
DeferredClose ==
  /\ pc = "closeSocket"
  /\ closeCount' = IF DeferredCloses(socket) THEN Close(socket) ELSE closeCount
  /\ pc' = "closeDone"
  /\ UNCHANGED <<state, socket, sched, store, storeKind, startingOffset, msg,
                 panicking, termErr, lastErr, logCount, callerWaiting, received,
                 doneClosed, dials, schedCalls, backoff, reads, sockReads,
                 okFrames, hsSent, last>>

\* Run line 92: defer close(done)
CloseDone ==
  /\ pc = "closeDone"
  /\ doneClosed' = TRUE
  /\ pc' = "done"
  /\ UNCHANGED <<state, socket, sched, store, storeKind, startingOffset, msg,
                 panicking, termErr, lastErr, logCount, callerWaiting, received,
                 dials, schedCalls, backoff, reads, sockReads, okFrames, hsSent,
                 closeCount, last>>

\* The caller of Run receives from the channel Run returned. The loop meets
\* the caller only at a send on done, so the receive is taken from the moment
\* a send may be pending; the caller may also never receive.
CallerReceive ==
  /\ pc \in {"sendErr", "deferred"}
  /\ ~callerWaiting
  /\ ~doneClosed
  /\ callerWaiting' = TRUE
  /\ UNCHANGED <<pc, state, socket, sched, store, storeKind, startingOffset,
                 msg, panicking, termErr, lastErr, logCount, received,
                 doneClosed, dials, schedCalls, backoff, reads, sockReads,
                 okFrames, hsSent, closeCount, last>>

Next ==
  \/ Connect
  \/ ReadMessage
  \/ ConnectingHandleEvent
  \/ ReadyHandleEvent
  \/ StreamingHandleEvent
  \/ HandleError
  \/ SendConnectError
  \/ Recover
  \/ DeferredClose
  \/ CloseDone
  \/ CallerReceive

Spec == Init /\ [][Next]_vars

\* ---------------------------------------------------- schedulers on their own
\* A policy's NewScheduler followed by calls of NextReconnectBackoff, as
\* connect makes them, for as long as the caller goes on calling.
MaxCalls == 66
MaxBackoffs == 36

MinusOne == Add(MinInt64, MaxInt64)

\* The policies: DefaultPolicy is Exponential(1s, 32s)
Policies ==
  { ConstantScheduler(Second),
    ExponentialScheduler(Second, Seconds(32)),
    ExponentialScheduler(FromNat(1), FromNat(4)),
    LimitedScheduler(3, Seconds(2)),
    LimitedScheduler(0, Second),
    LimitedExponentialPolicy(Second, Seconds(8)),
    LimitedExponentialPolicy(Seconds(2), Second),
    LimitedExponentialPolicy(ZeroDuration, Second),
    LimitedExponentialPolicy(Mul(MinusOne, Second), Second) }

PolicyInit ==
  /\ sched \in Policies
  /\ storeKind = "memory"
  /\ store = EmptyOffsets
  /\ startingOffset = OffsetOldest
  /\ NotStarted

\* One turn of the loop of LimitedExponentialReconnectionPolicy.NewScheduler
NewSchedulerStep ==
  /\ ~sched.built
  /\ Len(sched.backoffs) < MaxBackoffs
  /\ sched' = NewSchedulerIteration(sched)
  /\ UNCHANGED <<pc, state, socket, store, storeKind, startingOffset, msg,
                 panicking, termErr, lastErr, logCount, callerWaiting,
                 received, doneClosed, dials, schedCalls, backoff, reads,
                 sockReads, okFrames, hsSent, closeCount, last>>

\* One call of NextReconnectBackoff
SchedulerCall ==
  /\ sched.built
  /\ schedCalls < MaxCalls
  /\ \E conv \in OutOfRangeConversions :
       LET r == NextReconnectBackoff(sched, conv)
       IN /\ sched' = r.sched
          /\ backoff' = [d |-> r.d, res |-> r.res]
  /\ schedCalls' = schedCalls + 1
  /\ UNCHANGED <<pc, state, socket, store, storeKind, startingOffset, msg,
                 panicking, termErr, lastErr, logCount, callerWaiting,
                 received, doneClosed, dials, reads, sockReads, okFrames,
                 hsSent, closeCount, last>>

PolicyNext == NewSchedulerStep \/ SchedulerCall

PolicySpec == PolicyInit /\ [][PolicyNext]_vars


\* ================================================================= claims
\* The positions at which the loop has been left for good
Ended == {"sendErr", "deferred", "closeSocket", "closeDone", "done"}

\* The starting position a handshake built from these offsets must carry
StartingPosition(offsets, starting) ==
  IF DOMAIN offsets = {} THEN encodeStarting(starting)
  ELSE encodeOffsets(offsets)

\* C1: SetOffset(P, O) is issued only by a handleEvent call in the Streaming
\* state whose Handler call returned success, and for the partition and offset
\* of the message the Handler was given; no SetOffset is issued when the
\* Handler returned an error, panicked or was not called.
C1_CheckpointOnlyAfterHandlerSuccess ==
  last.write # "none" =>
    /\ last.handler = "ok"
    /\ last.st = "streaming"
    /\ last.wpartition = last.partition
    /\ last.woffset = last.offset

\* C1 witness: a message was handled with success and its offset written
C1_Witness ==
  /\ last.handler = "ok"
  /\ last.write = "ok"
  /\ last.woffset = 1
  /\ last.wpartition = 1

\* C2 as stated: whenever the Handler returned success for (P, O), the store
\* reports O for P afterwards, whatever the store's write returned.
C2_StoreReportsEveryHandledMessage ==
  last.handler = "ok" =>
    /\ last.partition \in DOMAIN store
    /\ store[last.partition] = last.offset

\* C2 amended: when the Handler returned success for (P, O) and SetOffset(P, O)
\* returned success, the store reports O for P after the write; and the stored
\* offsets change only by such a write.
C2_StoreReportsEverySuccessfulWrite ==
  /\ [](last.handler = "ok" /\ last.write = "ok" =>
          /\ last.partition \in DOMAIN store
          /\ store[last.partition] = last.offset)
  /\ [][store' # store =>
          /\ last'.handler = "ok"
          /\ last'.write = "ok"
          /\ store' = MapSet(store, last'.partition, last'.offset)]_vars

\* C2 witness: a remote store took the write of a handled message
C2_Witness ==
  /\ storeKind = "redis"
  /\ last.handler = "ok"
  /\ last.write = "ok"
  /\ last.partition \in DOMAIN store
  /\ store[last.partition] = last.offset
  /\ last.offset = 0

\* C3: when the Handler returns an error no checkpoint write is made for the
\* message and the error is a recoverable one that discards the socket; the
\* next connection handles its first frame in Handshaking, and the handshake
\* it sends carries the starting position encoded from the store as it stands
\* (the snapshot after the last successful write).
C3_HandlerFailureResumesFromSnapshot ==
  /\ last.handler = "err" => last.write = "none"
  /\ (lastErr = "handler" /\ pc = "loop") => (socket = NilSocket \/ sockReads = 0)
  /\ last.after = "handler" => (last.st = "connecting" /\ last.nth = 1)
  /\ (last.after = "handler" /\ last.handshake # NoHandshake) =>
       /\ "state" \in DOMAIN last.handshake
       /\ last.handshake["state"] = StartingPosition(store, startingOffset)

\* C4: the first frame read from every socket is handled in Handshaking,
\* whatever state the previous socket was discarded in.
C4_FirstFrameInHandshaking ==
  /\ (socket # NilSocket /\ sockReads = 0) => state = "connecting"
  /\ (pc = "dispatch" /\ sockReads = 1) => state = "connecting"
  /\ last.nth = 1 => last.st = "connecting"

\* C4 witness: the socket before was discarded in Streaming (its Handler
\* failed) and the first frame of the next socket was handled in Handshaking
C4_Witness ==
  /\ socket >= 2
  /\ last.nth = 1
  /\ last.after = "handler"
  /\ last.st = "connecting"
  /\ state = "ready"

\* C5: on one socket the state is Handshaking before the first accepted frame,
\* Acknowledging after it and Streaming after the second and every later one;
\* it changes only by one accepted frame, Handshaking -> Acknowledging or
\* Acknowledging -> Streaming; at most one handshake is written per socket and
\* exactly one once the state has left Handshaking; the Handler is called only
\* in Streaming, from the third frame of a socket on.
C5_StateAdvancesInOrder ==
  /\ [](/\ hsSent <= 1
        /\ socket # NilSocket =>
             /\ okFrames = 0 => state = "connecting"
             /\ okFrames = 1 => (state = "ready" /\ hsSent = 1)
             /\ okFrames >= 2 => (state = "streaming" /\ hsSent = 1)
             /\ (state = "connecting" /\ hsSent = 1) => lastErr = "send"
        /\ last.handler # "none" => (last.st = "streaming" /\ last.nth >= 3))
  /\ [][(socket # NilSocket /\ socket' = socket /\ state' # state) =>
          /\ okFrames' = okFrames + 1
          /\ <<state, state'>> \in
               {<<"connecting", "ready">>, <<"ready", "streaming">>}]_vars

\* C5 witness: a socket went through the three states and delivered a message
C5_Witness ==
  /\ socket # NilSocket
  /\ state = "streaming"
  /\ okFrames = 3
  /\ hsSent = 1
  /\ last.handler = "ok"

\* C6: when the scheduler signals exhaustion the transport is not opened, the
\* loop is left with the exhaustion error, that error is the one outcome the
\* caller receives, and no scheduler call, Dial, ReadMessage or handleEvent
\* follows.
C6_ExhaustionTerminates ==
  /\ [](backoff.res = "exhausted" =>
          /\ termErr = "exhausted"
          /\ pc \in Ended
          /\ socket = NilSocket
          /\ schedCalls = dials + 1
          /\ received \in {<<>>, <<"exhausted">>}
          /\ pc # "sendErr" => received = <<"exhausted">>)
  /\ [][backoff.res = "exhausted" =>
          UNCHANGED <<sched, schedCalls, dials, reads, last, socket, state>>]_vars

\* C6 witness: a limited scheduler ran out after two connections and the
\* caller received the exhaustion error
C6_Witness ==
  /\ backoff.res = "exhausted"
  /\ dials = 2
  /\ received = <<"exhausted">>
  /\ pc = "done"

\* C7: when Dial fails, at the first connect step or at a later one, the loop
\* is left at once with that error, that error is the one outcome the caller
\* receives, and no scheduler call or Dial follows.
C7_DialFailureTerminates ==
  /\ [](termErr = "dial" =>
          /\ pc \in Ended
          /\ socket = NilSocket
          /\ schedCalls = dials
          /\ received \in {<<>>, <<"dial">>}
          /\ pc # "sendErr" => received = <<"dial">>)
  /\ [][termErr = "dial" =>
          UNCHANGED <<sched, schedCalls, dials, reads, last, socket, state>>]_vars

\* C7 witness: a reconnect's Dial failed and the caller received the error
C7_Witness ==
  /\ termErr = "dial"
  /\ dials = 2
  /\ lastErr # "none"
  /\ received = <<"dial">>

\* C8 as stated: the loop is left only on scheduler exhaustion or on a Dial
\* failure of the very first connection attempt; a Dial failure of a later
\* attempt leaves the loop running. (A run ended by a caught panic is set
\* aside here: the statement fails without it.)
C8_EndsOnlyOnExhaustionOrFirstDial ==
  (pc \in Ended /\ termErr # "fault") =>
    \/ termErr = "exhausted"
    \/ (termErr = "dial" /\ dials = 1)

\* C8 amended: the loop is left only when the scheduler signals exhaustion,
\* when Dial fails at any connect step (the first or a later one), or when a
\* panic is caught; in every other situation the loop keeps running.
C8_EndsOnlyOnExhaustionDialOrFault ==
  /\ [](/\ termErr \in {"none", "exhausted", "dial", "fault"}
        /\ pc \in Ended <=> termErr # "none")
  /\ [][(pc \notin Ended /\ pc' \in Ended) =>
          \/ (termErr' = "exhausted" /\ backoff'.res = "exhausted")
          \/ (termErr' = "dial" /\ backoff'.res = "continue"
                /\ dials' = dials + 1)
          \/ (termErr' = "fault" /\ panicking')]_vars

\* C8 witness: the loop ended on the Dial failure of a second connection
C8_Witness ==
  /\ pc = "done"
  /\ termErr = "dial"
  /\ dials = 2
  /\ reads >= 1

\* C9: on every way out of the loop exactly one value is sent on done, the
\* reason the loop ended; done is closed only after it, nothing is sent after
\* the close, and a panic is always caught by the deferred function.
C9_ExactlyOneOutcome ==
  /\ [](/\ Len(received) <= 1
        /\ pc \in {"closeSocket", "closeDone", "done"} => Len(received) = 1
        /\ doneClosed => (Len(received) = 1 /\ pc = "done")
        /\ received # <<>> => (termErr # "none" /\ received[1] = termErr)
        /\ panicking => (pc = "deferred" /\ termErr = "fault"))
  /\ [][doneClosed => received' = received]_vars

\* C9 witness: a panic of the handler was sent on done, and done was closed
C9_Witness ==
  /\ doneClosed
  /\ received = <<"fault">>
  /\ last.handler = "panic"

\* C10: every recoverable error (read, parse, send, handler, store) is given
\* to the error callback once, with the socket still open; when the callback
\* returns, the socket is closed once and dropped and the loop's next step is
\* a connect step; the error is never sent on done and does not end the loop
\* (only a panic of the callback does).
C10_RecoverableErrorReconnects ==
  /\ [](pc = "onError" =>
          /\ lastErr \in {"read", "parse", "send", "handler", "store"}
          /\ logCount = 0
          /\ termErr = "none"
          /\ socket # NilSocket
          /\ closeCount[socket] = 0)
  /\ [][pc = "onError" =>
          /\ logCount' = 1
          /\ lastErr' = lastErr
          /\ received' = received
          /\ \/ /\ pc' = "loop"
                /\ termErr' = "none"
                /\ socket' = NilSocket
                /\ closeCount'[socket] = 1
             \/ /\ pc' = "deferred"
                /\ panicking'
                /\ termErr' = "fault"]_vars
  /\ [][(lastErr' # lastErr /\ lastErr' # "none") => pc' = "onError"]_vars
  /\ [][(pc = "loop" /\ socket = NilSocket /\ lastErr # "none") =>
          (schedCalls' = schedCalls + 1 /\ state' = "connecting")]_vars

\* C10 witness: a checkpoint-write error was logged once, the socket was
\* dropped and the loop connected again
C10_Witness ==
  /\ lastErr = "store"
  /\ logCount = 1
  /\ socket = 2
  /\ sockReads = 0
  /\ closeCount[1] = 1

\* C11: the loop owns at most one open socket at any time, and it is the one
\* held in eb.socket; no socket is closed twice; a frame is read only from a
\* socket that has not been closed; and when the loop's goroutine has ended
\* every socket it opened has been closed, whatever the exit path.
OpenSockets == {c \in DOMAIN closeCount : closeCount[c] = 0}

C11_SocketsOwnedAndClosed ==
  /\ OpenSockets \subseteq {socket}
  /\ \A c \in DOMAIN closeCount : closeCount[c] <= 1
  /\ (pc = "loop" /\ socket # NilSocket) => socket \in OpenSockets
  /\ pc = "done" => OpenSockets = {}

\* Two sockets were opened, the first closed after a recoverable error and
\* the second by the deferred function after a fault; the loop has ended
C11_Witness ==
  /\ pc = "done"
  /\ termErr = "fault"
  /\ socket = 2
  /\ closeCount = <<1, 1>>

\* C12: every call of the exponential scheduler returns "continue" with a
\* duration that is at least base and at most max; with base = 1s and
\* max = 32s the results are 1s, 2s, 4s, 8s, 16s, 32s and 32s on every later
\* call (the duration stays at max once it has reached it).
DefaultBackoffs == <<1, 2, 4, 8, 16, 32>>

C12_ExponentialBackoffBounded ==
  (sched.kind = "exponential" /\ schedCalls >= 1) =>
    /\ backoff.res = "continue"
    /\ Leq(sched.delay, backoff.d)
    /\ Leq(backoff.d, sched.maxDelay)
    /\ (sched.delay = Second /\ sched.maxDelay = Seconds(32)) =>
         backoff.d = IF schedCalls <= Len(DefaultBackoffs)
                     THEN Seconds(DefaultBackoffs[schedCalls])
                     ELSE sched.maxDelay

\* C13: a limited scheduler with N attempts and delay d returns (d, continue)
\* on calls 1..N and (d, exhausted) on call N+1 and on every later call.
C13_LimitedExhaustsAfterN ==
  (sched.kind = "limited" /\ schedCalls >= 1) =>
    /\ backoff.d = sched.delay
    /\ backoff.res = IF schedCalls <= sched.limit THEN "continue"
                     ELSE "exhausted"

\* attempts = 3, delay = 2s: the second call after the exhaustion
C13_Witness ==
  /\ sched.kind = "limited"
  /\ sched.limit = 3
  /\ schedCalls = 5
  /\ backoff = [d |-> Seconds(2), res |-> "exhausted"]

\* C14: the sequence a limited exponential scheduler is built with is base,
\* 2*base, 4*base, ... and holds exactly the values <= max (the value after
\* its last one exceeds max); call k returns the k-th value with "continue"
\* for k up to the length of the sequence, and every later call returns the
\* last value of the sequence with "exhausted" (a sequence that has a last
\* value: the empty sequence is the subject of C20).
C14_LimitedExponentialSequence ==
  (sched.kind = "limitedExponential" /\ sched.built) =>
    LET n == Len(sched.backoffs)
    IN /\ \A i \in 1..n :
            /\ sched.backoffs[i] = Mul(PowDuration(i - 1, MinInt64), sched.delay)
            /\ Leq(sched.backoffs[i], sched.maxDelay)
       /\ ~Leq(Mul(PowDuration(n, MinInt64), sched.delay), sched.maxDelay)
       /\ (sched.delay = Second /\ sched.maxDelay = Seconds(8)) =>
            sched.backoffs = <<Second, Seconds(2), Seconds(4), Seconds(8)>>
       /\ (schedCalls >= 1 /\ n > 0) =>
            backoff = IF schedCalls <= n
                      THEN [d |-> sched.backoffs[schedCalls], res |-> "continue"]
                      ELSE [d |-> sched.backoffs[n], res |-> "exhausted"]

\* base = 1s, max = 8s: the second call after the four values
C14_Witness ==
  /\ sched.kind = "limitedExponential"
  /\ sched.built
  /\ Len(sched.backoffs) = 4
  /\ schedCalls = 6
  /\ backoff = [d |-> Seconds(8), res |-> "exhausted"]

\* C20: every scheduler is total: the loop of NewScheduler ends for every
\* base and max (it never reaches a turn that leaves b as it was with its
\* condition still true), and every call of NextReconnectBackoff returns a
\* duration with "continue" or "exhausted", without a fault.
LoopSpins ==
  /\ ~sched.built
  /\ Leq(sched.b, sched.maxDelay)
  /\ Double(sched.b) = sched.b

C20_SchedulersTotal ==
  /\ ~LoopSpins
  /\ backoff.res \in {"none", "continue", "exhausted"}

\* C15: a handshake built from a snapshot of the store (GetOffsets returned
\* without an error) carries the starting position that snapshot chooses: a
\* non-empty snapshot is encoded under key "p" as the map that has every
\* stored partition with the offset stored for it, an empty snapshot under
\* key "d" as the configured boundary (OffsetOldest, or OffsetNewest after
\* StartAtNewest); the state holds one of the two shapes, never both.
C15_StartingPositionFromSnapshot ==
  (last.got \in {"nil", "offsets"}) =>
    /\ "state" \in DOMAIN last.handshake
    /\ LET position == last.handshake["state"].base64
       IN IF DOMAIN store # {}
          THEN /\ last.got = "offsets"
               /\ position.key = "p"
               /\ DOMAIN position.value = {FormatInt(p) : p \in DOMAIN store}
               /\ \A p \in DOMAIN store :
                    position.value[FormatInt(p)] = FormatInt(store[p])
          ELSE /\ last.got = "nil"
               /\ position.key = "d"
               /\ position.value = FormatInt(startingOffset)
               /\ startingOffset \in {OffsetOldest, OffsetNewest}

\* A handshake built after a reconnect from a snapshot of two partitions
C15_Witness ==
  /\ last.got = "offsets"
  /\ DOMAIN store = {0, 1}
  /\ dials = 2
  /\ last.handshake["state"].base64.key = "p"

\* A first handshake built from an empty store after StartAtNewest
C15_WitnessDirective ==
  /\ last.got = "nil"
  /\ startingOffset = OffsetNewest
  /\ last.handshake["state"].base64 = [key |-> "d", value |-> <<"-", "1">>]

\* C16: the offset stored for a partition never decreases: every step keeps
\* every stored partition and leaves its offset greater than or equal to
\* the offset stored before, whatever offsets the frames carry.
C16_StoredOffsetNeverDecreases ==
  [][\A p \in DOMAIN store : p \in DOMAIN store' /\ store'[p] >= store[p]]_vars

\* C17: the scheduler is called exactly once in every connect step (before
\* the transport is opened, and the transport is opened only after a
\* "continue"), and its counter is never reset: it always tells the number of
\* connect steps of the client's lifetime. With a limited scheduler of N
\* attempts the transport is opened at most N times and the client ends
\* with exhaustion at connect step N + 1.
ConnectExit == IF backoff.res \in {"exhausted", "panic"} THEN 1 ELSE 0

C17_CounterAdvancesOncePerConnect ==
  /\ schedCalls = dials + ConnectExit
  /\ sched.kind \in {"exponential", "limitedExponential"} =>
       sched.attempts = schedCalls
  /\ sched.kind = "limited" =>
       /\ sched.attempts = sched.limit - schedCalls
       /\ dials <= sched.limit
       /\ termErr = "exhausted" <=> schedCalls = sched.limit + 1

\* A limited scheduler of 2 attempts: the first connection reached Streaming
\* and wrote a checkpoint, the second failed, the third connect step ended
\* the client with exhaustion
C17_Witness ==
  /\ sched.kind = "limited"
  /\ storeKind = "memory"
  /\ store # EmptyOffsets
  /\ dials = 2
  /\ schedCalls = 3
  /\ termErr = "exhausted"
  /\ pc = "done"

\* C18: every handshake the client builds and sends carries a starting
\* position: its "state" field is present and is the "p" or the "d" encoding,
\* whatever GetOffsets returned; the state is "ready" after a handshake only
\* if that handshake had one.
C18_HandshakeCarriesStartingPosition ==
  (last.got # "none") =>
    /\ "state" \in DOMAIN last.handshake
    /\ last.handshake["state"].base64.key \in {"p", "d"}

\* C19: when a fault is caught while a socket is open, closing that socket
\* does not wait for the caller: the deferred function can take its next
\* step towards the Close whether or not the caller is receiving from done.
C19_CloseDoesNotWaitForCaller ==
  (pc = "deferred" /\ termErr = "fault" /\ socket \in OpenSockets) =>
    ENABLED Recover

====
